---- MODULE Spec2Model ----
(***************************************************************************)
(* Model of squangle/mysql_client/Query.cpp: the QueryArgument value       *)
(* model, the helpers of the anonymous namespace, Query::append,           *)
(* Query::appendValue, Query::appendValueClauses, Query::render,           *)
(* Query::renderMultiQuery and MultiQuery::renderQuery.                    *)
(*                                                                         *)
(* Text is a sequence of one-character strings.  Offsets are 0-based as in *)
(* the source; CharAt(s, i) reads byte i.  A function that can throw       *)
(* returns a record [ok, error, offset, detail, out]; a throw discards the *)
(* output built so far (out = <<>>), and error carries the message of the  *)
(* exception.                                                              *)
(***************************************************************************)
EXTENDS Integers, Sequences, FiniteSets, TLC

(* ------------------------------ bounds --------------------------------- *)
MaxTextLen == 4      \* template length in the scan family
MaxParams == 2       \* argument-list length in the scan family
MaxDangerLen == 3    \* template length in the dangerous-character family
MaxListLen == 2      \* elements of a List argument in the type family
MaxIdentLen == 4     \* length of an identifier given to %T / %C
MaxCommentLen == 5   \* length of a comment given to %K
MaxRows == 3         \* rows given to %V
MaxCols == 2         \* cells of one %V row
MaxPairs == 2        \* pairs of a PairList given to %U / %W
MaxFrags == 2        \* fragments of one operand of append
MaxBatch == 3        \* statements of a MultiQuery

(* --------------------------- text helpers ------------------------------ *)
CharAt(s, i) == s[i + 1]

\* the byte 0x60 (grave accent), which a TLA+ string cannot contain
Backtick == "0x60"

RECURSIVE SeqsUpTo(_, _)
\* all sequences over S of length 0..n
SeqsUpTo(S, n) ==
  IF n = 0 THEN {<<>>}
  ELSE LET shorter == SeqsUpTo(S, n - 1)
       IN  shorter \cup {Append(s, x) : s \in shorter, x \in S}

(* ----------------------- QueryArgument (value_) ------------------------ *)
\* One record shape for every alternative of the boost::variant; type is
\* the active alternative, the other fields are unused defaults.
\*   Null | Bool (n = 0/1) | Int (n) | Double (n = value in tenths)
\*   Str (s) | Query | List (list) | PairList (pairs of [first, second])
Arg(t, n, s, l, p) == [type |-> t, n |-> n, s |-> s, list |-> l, pairs |-> p]
NullArg == Arg("Null", 0, <<>>, <<>>, <<>>)
BoolArg(b) == Arg("Bool", IF b THEN 1 ELSE 0, <<>>, <<>>, <<>>)
IntArg(i) == Arg("Int", i, <<>>, <<>>, <<>>)
DoubleArg(tenths) == Arg("Double", tenths, <<>>, <<>>, <<>>)
StrArg(s) == Arg("Str", 0, s, <<>>, <<>>)
QueryArg == Arg("Query", 0, <<>>, <<>>, <<>>)
ListArg(l) == Arg("List", 0, <<>>, l, <<>>)
PairListArg(p) == Arg("PairList", 0, <<>>, <<>>, p)
ArgPair(k, v) == [first |-> k, second |-> v]

isString(d) == d.type = "Str"
isQuery(d) == d.type = "Query"
isPairList(d) == d.type = "PairList"
isBool(d) == d.type = "Bool"
isNull(d) == d.type = "Null"
isList(d) == d.type = "List"
isDouble(d) == d.type = "Double"
isInt(d) == d.type = "Int"

\* QueryArgument::typeName() (declared in Query.h): the name of the variant
typeName(d) == d.type

(* --------------------------- results / throws -------------------------- *)
Ok(out) == [ok |-> TRUE, error |-> "", offset |-> 0, detail |-> <<>>, out |-> out]
Throw(msg, off, detail) ==
  [ok |-> FALSE, error |-> msg, offset |-> off, detail |-> detail, out |-> <<>>]

\* parseError(s, offset, message): std::invalid_argument
parseError(offset, message) == Throw(message, offset, <<>>)

\* formatStringParseError(query_text, offset, format_specifier, value_type)
formatStringParseError(offset, format_specifier, value_type) ==
  Throw("invalid value type for format string", offset,
        <<value_type, format_specifier>>)

(* ------------------------- FbStringConverter --------------------------- *)
Digit(n) == CASE n = 0 -> "0" [] n = 1 -> "1" [] n = 2 -> "2" [] n = 3 -> "3"
              [] n = 4 -> "4" [] n = 5 -> "5" [] n = 6 -> "6" [] n = 7 -> "7"
              [] n = 8 -> "8" [] n = 9 -> "9"

RECURSIVE NatToStr(_)
NatToStr(n) == IF n < 10 THEN <<Digit(n)>>
               ELSE NatToStr(n \div 10) \o <<Digit(n % 10)>>

\* folly::to<fbstring>(int64_t)
IntToStr(i) == IF i < 0 THEN <<"-">> \o NatToStr(0 - i) ELSE NatToStr(i)

\* folly::to<fbstring>(double) on a value given in tenths: shortest form
DoubleToStr(t) ==
  LET a == IF t < 0 THEN 0 - t ELSE t
      sign == IF t < 0 THEN <<"-">> ELSE <<>>
      frac == IF a % 10 = 0 THEN <<>> ELSE <<".", Digit(a % 10)>>
  IN  sign \o NatToStr(a \div 10) \o frac

\* QueryArgument::asString(): apply_visitor(FbStringConverter(), value_)
asString(d) ==
  CASE isDouble(d) -> Ok(DoubleToStr(d.n))
    [] isBool(d) -> Ok(IntToStr(d.n))
    [] isInt(d) -> Ok(IntToStr(d.n))
    [] isString(d) -> Ok(d.s)
    [] OTHER -> Throw("Only allowed type conversions are Int, Double, Bool and String",
                      0, <<>>)

(* -------------------- helpers of the anonymous namespace --------------- *)
RECURSIVE replace_all(_, _, _)
\* boost::replace_all(str, search, format): every non-overlapping occurrence
\* found left to right is replaced; replaced text is not searched again
replace_all(str, search, format) ==
  IF Len(str) < Len(search) THEN str
  ELSE IF SubSeq(str, 1, Len(search)) = search
       THEN format \o replace_all(SubSeq(str, Len(search) + 1, Len(str)), search, format)
       ELSE <<str[1]>> \o replace_all(Tail(str), search, format)

\* appendComment without the second replace_all
appendComment_FirstOnly(d) ==
  LET str == asString(d)
  IN  IF ~str.ok THEN str
      ELSE Ok(replace_all(str.out, <<"/", "*">>, <<" ", "/", " ", "*", " ">>))

appendComment(d) ==
  LET str == asString(d)
  IN  IF ~str.ok THEN str
      ELSE Ok(replace_all(replace_all(str.out, <<"/", "*">>, <<" ", "/", " ", "*", " ">>),
                          <<"*", "/">>, <<" ", "*", " ", "/", " ">>))

\* the loop of appendColumnTableName without the extra 0x60
DoubleBackticks_Single(s) == s

RECURSIVE DoubleBackticks(_)
\* the loop of appendColumnTableName: an extra 0x60 before every 0x60
DoubleBackticks(s) ==
  IF s = <<>> THEN <<>>
  ELSE (IF s[1] = Backtick THEN <<Backtick, Backtick>> ELSE <<s[1]>>)
       \o DoubleBackticks(Tail(s))

appendColumnTableName(d) ==
  IF isString(d) THEN Ok(<<Backtick>> \o DoubleBackticks(d.s) \o <<Backtick>>)
  ELSE asString(d)

\* advance(s, &offset, 1): the new offset, or the throw
advance(s, offset, num) ==
  IF Len(s) <= offset + num
  THEN [ok |-> FALSE, offset |-> offset, type |-> ""]
  ELSE [ok |-> TRUE, offset |-> offset + num, type |-> CharAt(s, offset + num)]

RECURSIVE mysql_real_escape_string(_)
\* libmysqlclient: \ ' " are prefixed with a backslash
mysql_real_escape_string(value) ==
  IF value = <<>> THEN <<>>
  ELSE (IF value[1] \in {"\\", "'", "\""} THEN <<"\\", value[1]>> ELSE <<value[1]>>)
       \o mysql_real_escape_string(Tail(value))

\* connection = FALSE is the null MYSQL*: the value is copied unmodified
appendEscapedString(value, connection) ==
  IF ~connection THEN value ELSE mysql_real_escape_string(value)

(* ------------------------------- Query --------------------------------- *)
\* Query::Query(query_text, params): unsafe_query_(false)
Query(query_text, params) ==
  [query_text |-> query_text, unsafe_query |-> FALSE, params |-> params]

\* Query::unsafe(query_text) of Query.h: a verbatim query without parameters
UnsafeQuery(query_text) ==
  [query_text |-> query_text, unsafe_query |-> TRUE, params |-> <<>>]

\* Query::append that forgets the parameters of query2
QueryAppend_NoParams(query1, query2) ==
  [query_text |-> query1.query_text \o query2.query_text,
   unsafe_query |-> query1.unsafe_query,
   params |-> query1.params]

\* Query::append(query2): the text and the parameters of query2 are appended,
\* unsafe_query_ is not touched
QueryAppend(query1, query2) ==
  [query_text |-> query1.query_text \o query2.query_text,
   unsafe_query |-> query1.unsafe_query,
   params |-> query1.params \o query2.params]

\* Query::appendValue without the type check of the Int branch
appendValue_IntUnchecked(offset, type, d, connection) ==
  IF isString(d) THEN
    IF type # "s" /\ type # "v"
    THEN formatStringParseError(offset, type, "string")
    ELSE Ok(<<"\"">> \o appendEscapedString(d.s, connection) \o <<"\"">>)
  ELSE IF isInt(d) THEN asString(d)
  ELSE IF isDouble(d) THEN
    IF type # "f" /\ type # "v"
    THEN formatStringParseError(offset, type, "double")
    ELSE asString(d)
  ELSE IF isNull(d) THEN Ok(<<"N", "U", "L", "L">>)
  ELSE formatStringParseError(offset, type, typeName(d))

\* Query::appendValue(s, offset, type, d, connection): the text appended to s
appendValue(offset, type, d, connection) ==
  IF isString(d) THEN
    IF type # "s" /\ type # "v"
    THEN formatStringParseError(offset, type, "string")
    ELSE Ok(<<"\"">> \o appendEscapedString(d.s, connection) \o <<"\"">>)
  ELSE IF isInt(d) THEN
    IF type # "d" /\ type # "v"
    THEN formatStringParseError(offset, type, "int")
    ELSE asString(d)
  ELSE IF isDouble(d) THEN
    IF type # "f" /\ type # "v"
    THEN formatStringParseError(offset, type, "double")
    ELSE asString(d)
  ELSE IF isNull(d) THEN Ok(<<"N", "U", "L", "L">>)
  ELSE formatStringParseError(offset, type, typeName(d))

SepComma == <<",", " ">>
SepAnd == <<" ", "A", "N", "D", " ">>
SepOr == <<" ", "O", "R", " ">>
IsNullText == <<" ", "I", "S", " ", "N", "U", "L", "L">>
EqualsText == <<" ", "=", " ">>

RECURSIVE ValueClausesLoop_AlwaysIsNull(_, _, _, _, _, _)
\* the loop of appendValueClauses without the test of the separator
ValueClausesLoop_AlwaysIsNull(pairs, k, idx, sep, connection, ret) ==
  IF k > Len(pairs) THEN Ok(ret)
  ELSE LET key_value == pairs[k]
           withSep == IF k > 1 THEN ret \o sep ELSE ret
           name == appendColumnTableName(StrArg(key_value.first))
       IN  IF isNull(key_value.second)
           THEN ValueClausesLoop_AlwaysIsNull(pairs, k + 1, idx, sep, connection,
                                              withSep \o name.out \o IsNullText)
           ELSE LET v == appendValue(idx, "v", key_value.second, connection)
                IN  IF ~v.ok THEN v
                    ELSE ValueClausesLoop_AlwaysIsNull(pairs, k + 1, idx, sep, connection,
                                          withSep \o name.out \o EqualsText \o v.out)

RECURSIVE ValueClausesLoop(_, _, _, _, _, _)
\* the for loop of appendValueClauses over param.getPairs(), at pair k
ValueClausesLoop(pairs, k, idx, sep, connection, ret) ==
  IF k > Len(pairs) THEN Ok(ret)
  ELSE LET key_value == pairs[k]
           withSep == IF k > 1 THEN ret \o sep ELSE ret
           name == appendColumnTableName(StrArg(key_value.first))
       IN  IF isNull(key_value.second) /\ sep[1] # ","
           THEN ValueClausesLoop(pairs, k + 1, idx, sep, connection,
                                 withSep \o name.out \o IsNullText)
           ELSE LET v == appendValue(idx, "v", key_value.second, connection)
                IN  IF ~v.ok THEN v
                    ELSE ValueClausesLoop(pairs, k + 1, idx, sep, connection,
                                          withSep \o name.out \o EqualsText \o v.out)

\* Query::appendValueClauses(ret, idx, sep, param, connection)
appendValueClauses(idx, sep, param, connection) ==
  IF ~isPairList(param)
  THEN parseError(idx, "object expected for %Lx")
  ELSE ValueClausesLoop(param.pairs, 1, idx, sep, connection, <<>>)

\* boost::get<std::vector<QueryArgument>> on another alternative
bad_get == Throw("boost::bad_get", 0, <<>>)

RECURSIVE ColsLoop(_, _, _, _, _)
\* %V: the inner for loop over row.getList(), at cell j
ColsLoop(cols, j, idx, connection, ret) ==
  IF j > Len(cols) THEN Ok(ret)
  ELSE LET v == appendValue(idx, "v", cols[j], connection)
       IN  IF ~v.ok THEN v
           ELSE ColsLoop(cols, j + 1, idx, connection,
                         (IF j > 1 THEN ret \o SepComma ELSE ret) \o v.out)

RECURSIVE RowsLoop_ShortAccepted(_, _, _, _, _, _)
\* the outer loop of %V rejecting only the rows longer than the first
RowsLoop_ShortAccepted(rows, k, idx, connection, row_len, ret) ==
  IF k > Len(rows) THEN Ok(ret)
  ELSE LET row == rows[k]
           first_row == (k = 1)
           open == (IF first_row THEN ret ELSE ret \o SepComma) \o <<"(">>
       IN  IF ~isList(row) THEN bad_get
           ELSE LET cells == ColsLoop(row.list, 1, idx, connection, <<>>)
                    col_idx == Len(row.list)
                IN  IF ~cells.ok THEN cells
                    ELSE IF first_row
                    THEN RowsLoop_ShortAccepted(rows, k + 1, idx, connection, col_idx,
                                                open \o cells.out \o <<")">>)
                    ELSE IF col_idx > row_len
                    THEN parseError(idx,
                           "not all rows provided for %V formatter are the same size")
                    ELSE RowsLoop_ShortAccepted(rows, k + 1, idx, connection, row_len,
                                                open \o cells.out \o <<")">>)

RECURSIVE RowsLoop(_, _, _, _, _, _)
\* %V: the outer for loop over param.getList(), at row k; row_len is the
\* number of cells counted in the first row
RowsLoop(rows, k, idx, connection, row_len, ret) ==
  IF k > Len(rows) THEN Ok(ret)
  ELSE LET row == rows[k]
           first_row == (k = 1)
           open == (IF first_row THEN ret ELSE ret \o SepComma) \o <<"(">>
       IN  IF ~isList(row) THEN bad_get
           ELSE LET cells == ColsLoop(row.list, 1, idx, connection, <<>>)
                    col_idx == Len(row.list)
                IN  IF ~cells.ok THEN cells
                    ELSE IF first_row
                    THEN RowsLoop(rows, k + 1, idx, connection, col_idx,
                                  open \o cells.out \o <<")">>)
                    ELSE IF col_idx # row_len
                    THEN parseError(idx,
                           "not all rows provided for %V formatter are the same size")
                    ELSE RowsLoop(rows, k + 1, idx, connection, row_len,
                                  open \o cells.out \o <<")">>)

RECURSIVE ListLoop(_, _, _, _, _, _)
\* %L with a plain letter: the for loop over param.getList(), at element k
ListLoop(vals, k, idx, type, connection, ret) ==
  IF k > Len(vals) THEN Ok(ret)
  ELSE LET v == IF type = "C" THEN appendColumnTableName(vals[k])
                ELSE appendValue(idx, type, vals[k], connection)
       IN  IF ~v.ok THEN v
           ELSE ListLoop(vals, k + 1, idx, type, connection,
                         (IF k > 1 THEN ret \o SepComma ELSE ret) \o v.out)

\* one specifier of Query::render: the branch chosen by c at offset idx with
\* the consumed param; r is the text appended (or the throw), idx the offset
\* after the branch (advance moves it for %= and %L)
renderSpecifier(querySp, idx, c, param, conn) ==
  IF c = "d" \/ c = "s" \/ c = "f" THEN
    [r |-> appendValue(idx, c, param, conn), idx |-> idx]
  ELSE IF c = "K" THEN
    LET str == appendComment(param)
    IN  [r |-> IF ~str.ok THEN str ELSE Ok(<<"/", "*">> \o str.out \o <<"*", "/">>),
         idx |-> idx]
  ELSE IF c = "T" \/ c = "C" THEN
    [r |-> appendColumnTableName(param), idx |-> idx]
  ELSE IF c = "=" THEN
    LET type == advance(querySp, idx, 1)
    IN  IF ~type.ok
        THEN [r |-> parseError(idx, "unexpected end of string"), idx |-> idx]
        ELSE IF type.type # "d" /\ type.type # "s" /\ type.type # "f"
        THEN [r |-> parseError(type.offset, "expected %=d, %=c, or %=s"),
              idx |-> type.offset]
        ELSE IF isNull(param)
        THEN [r |-> Ok(IsNullText), idx |-> type.offset]
        ELSE LET v == appendValue(type.offset, type.type, param, conn)
             IN  [r |-> IF ~v.ok THEN v ELSE Ok(EqualsText \o v.out),
                  idx |-> type.offset]
  ELSE IF c = "V" THEN
    IF isQuery(param)
    THEN [r |-> parseError(idx, "%V doesn't allow subquery"), idx |-> idx]
    ELSE IF ~isList(param) THEN [r |-> bad_get, idx |-> idx]
    ELSE [r |-> RowsLoop(param.list, 1, idx, conn, 0, <<>>), idx |-> idx]
  ELSE IF c = "L" THEN
    LET type == advance(querySp, idx, 1)
    IN  IF ~type.ok
        THEN [r |-> parseError(idx, "unexpected end of string"), idx |-> idx]
        ELSE IF type.type = "O" \/ type.type = "A"
        THEN LET sep == IF type.type = "O" THEN SepOr ELSE SepAnd
                 cl == appendValueClauses(type.offset, sep, param, conn)
             IN  [r |-> IF ~cl.ok THEN cl ELSE Ok(<<"(">> \o cl.out \o <<")">>),
                  idx |-> type.offset]
        ELSE IF ~isList(param)
        THEN [r |-> parseError(type.offset, "expected array for %L formatter"),
              idx |-> type.offset]
        ELSE [r |-> ListLoop(param.list, 1, type.offset, type.type, conn, <<>>),
              idx |-> type.offset]
  ELSE IF c = "U" \/ c = "W" THEN
    [r |-> IF c = "W" THEN appendValueClauses(idx, SepAnd, param, conn)
           ELSE appendValueClauses(idx, SepComma, param, conn),
     idx |-> idx]
  ELSE IF c = "Q" THEN
    [r |-> asString(param), idx |-> idx]
  ELSE [r |-> parseError(idx, "unknown % code"), idx |-> idx]

RECURSIVE RenderLoop_NoTooMany(_, _, _, _, _, _, _)
\* the loop of Query::render without the test for parameters left over
RenderLoop_NoTooMany(querySp, params, conn, idx, current_param, after_percent, ret) ==
  IF idx >= Len(querySp) THEN
    IF after_percent
    THEN parseError(idx, "string ended with unfinished % code")
    ELSE Ok(ret)
  ELSE LET c == CharAt(querySp, idx)
       IN  IF ~after_percent THEN
             IF c # "%"
             THEN RenderLoop_NoTooMany(querySp, params, conn, idx + 1, current_param,
                                       FALSE, Append(ret, c))
             ELSE RenderLoop_NoTooMany(querySp, params, conn, idx + 1, current_param,
                                       TRUE, ret)
           ELSE IF c = "%"
           THEN RenderLoop_NoTooMany(querySp, params, conn, idx + 1, current_param,
                                     FALSE, Append(ret, "%"))
           ELSE IF current_param = Len(params)
           THEN parseError(idx, "too few parameters for query")
           ELSE LET step == renderSpecifier(querySp, idx, c,
                                            params[current_param + 1], conn)
                IN  IF ~step.r.ok THEN step.r
                    ELSE RenderLoop_NoTooMany(querySp, params, conn, step.idx + 1,
                                              current_param + 1, FALSE,
                                              ret \o step.r.out)

RECURSIVE RenderLoop(_, _, _, _, _, _, _)
\* the for loop of Query::render at offset idx; current_param is the number
\* of params consumed so far
RenderLoop(querySp, params, conn, idx, current_param, after_percent, ret) ==
  IF idx >= Len(querySp) THEN
    IF after_percent
    THEN parseError(idx, "string ended with unfinished % code")
    ELSE IF current_param # Len(params)
    THEN parseError(0, "too many parameters specified for query")
    ELSE Ok(ret)
  ELSE LET c == CharAt(querySp, idx)
       IN  IF ~after_percent THEN
             IF c # "%"
             THEN RenderLoop(querySp, params, conn, idx + 1, current_param, FALSE,
                             Append(ret, c))
             ELSE RenderLoop(querySp, params, conn, idx + 1, current_param, TRUE, ret)
           ELSE IF c = "%"
           THEN RenderLoop(querySp, params, conn, idx + 1, current_param, FALSE,
                           Append(ret, "%"))
           ELSE IF current_param = Len(params)
           THEN parseError(idx, "too few parameters for query")
           ELSE LET step == renderSpecifier(querySp, idx, c,
                                            params[current_param + 1], conn)
                IN  IF ~step.r.ok THEN step.r
                    ELSE RenderLoop(querySp, params, conn, step.idx + 1,
                                    current_param + 1, FALSE, ret \o step.r.out)

\* the dangerous bytes without 0x60
DangerousChars_NoBacktick == {";", "'", "\""}
DangerousChars == {";", "'", "\"", Backtick}
npos == 0 - 1

\* StringPiece::find_first_of: offset of the first byte in chars, or npos
find_first_of(s, chars) ==
  IF \E i \in 0 .. Len(s) - 1 : CharAt(s, i) \in chars
  THEN CHOOSE i \in 0 .. Len(s) - 1 :
         /\ CharAt(s, i) \in chars
         /\ \A j \in 0 .. i - 1 : CharAt(s, j) \notin chars
  ELSE npos

\* Query::render(conn, params)
render(query, conn, params) ==
  LET querySp == query.query_text
  IN  IF query.unsafe_query THEN Ok(querySp)
      ELSE LET offset == find_first_of(querySp, DangerousChars)
           IN  IF offset # npos
               THEN parseError(offset, "Saw dangerous characters in SQL query")
               ELSE RenderLoop(querySp, params, conn, 0, 0, FALSE, <<>>)

RECURSIVE MultiQueryLoop(_, _, _, _)
\* the second for loop of Query::renderMultiQuery, at query k
MultiQueryLoop(conn, queries, k, ret) ==
  IF k > Len(queries) THEN Ok(ret)
  ELSE LET r == render(queries[k], conn, queries[k].params)
       IN  IF ~r.ok THEN r
           ELSE MultiQueryLoop(conn, queries, k + 1,
                               (IF ret # <<>> THEN ret \o <<";">> ELSE ret) \o r.out)

\* Query::renderMultiQuery(connection, queries)
renderMultiQuery(conn, queries) == MultiQueryLoop(conn, queries, 1, <<>>)

\* MultiQuery::renderQuery(conn)
renderQuery(conn, queries) ==
  IF Len(queries) = 1 /\ queries[1].unsafe_query
  THEN Ok(queries[1].query_text)
  ELSE renderMultiQuery(conn, queries)

(* ------------------------------ inputs --------------------------------- *)
RECURSIVE Concat(_)
\* the Query obtained by appending the Queries of a sequence in order
Concat(qs) ==
  IF qs = <<>> THEN Query(<<>>, <<>>)
  ELSE IF Len(qs) = 1 THEN qs[1]
  ELSE QueryAppend(Concat(SubSeq(qs, 1, Len(qs) - 1)), qs[Len(qs)])

\* templates over the specifier bytes, with short argument lists
ScanAlphabet == {"%", "d", "=", "L"}
ScanValues == {IntArg(1), ListArg(<<IntArg(1)>>)}
ScanQueries ==
  {Query(t, a) : t \in SeqsUpTo(ScanAlphabet, MaxTextLen),
                 a \in SeqsUpTo(ScanValues, MaxParams)}

\* templates with the bytes ; ' " 0x60 typed literally, safe and unsafe
DangerAlphabet == {"%", "d", "x", ";", "'", "\"", Backtick}
DangerQueries ==
  {Query(t, a) : t \in SeqsUpTo(DangerAlphabet, MaxDangerLen),
                 a \in {<<>>, <<IntArg(1)>>}}
  \cup {UnsafeQuery(t) : t \in SeqsUpTo(DangerAlphabet, MaxDangerLen)}

\* one specifier with one argument of every variant
ListElems == {IntArg(7), StrArg(<<"a">>), NullArg, DoubleArg(15)}
TypeValues ==
  {NullArg, BoolArg(TRUE), IntArg(7), IntArg(0 - 12), DoubleArg(15), DoubleArg(0 - 20),
   StrArg(<<"a", "'">>), QueryArg,
   PairListArg(<<>>), PairListArg(<<ArgPair(<<"k">>, IntArg(7))>>)}
  \cup {ListArg(l) : l \in SeqsUpTo(ListElems, MaxListLen)}
TypeTemplates ==
  {<<"%", c>> : c \in {"d", "s", "f", "T", "C", "Q", "K", "v"}}
  \cup {<<"%", "=", t>> : t \in {"d", "s", "f", "v"}}
  \cup {<<"%", "L", t>> : t \in {"d", "s", "f", "v", "C", "x"}}
TypeQueries == {Query(t, <<v>>) : t \in TypeTemplates, v \in TypeValues}

\* %T and %C with an identifier
IdentQueries ==
  {Query(<<"%", c>>, <<StrArg(s)>>) :
     c \in {"T", "C"}, s \in SeqsUpTo({Backtick, "a"}, MaxIdentLen)}

\* %K with a comment
CommentQueries ==
  {Query(<<"%", "K">>, <<StrArg(s)>>) : s \in SeqsUpTo({"/", "*", "a"}, MaxCommentLen)}

\* %V with a List of rows
\* (rows of every length up to MaxCols with one cell value, and one or two
\* rows of up to two cells of every renderable kind)
Cells == {IntArg(1), StrArg(<<"b", "'">>), NullArg, DoubleArg(0 - 5)}
RowsQueries ==
  {Query(<<"%", "V">>, <<ListArg(rows)>>) :
     rows \in SeqsUpTo({ListArg(r) : r \in SeqsUpTo({IntArg(1)}, MaxCols)}, MaxRows)
               \cup SeqsUpTo({ListArg(r) : r \in SeqsUpTo(Cells, 2)}, 2)}

\* %U and %W with a PairList
PairKeys == {<<"a">>, <<"b", Backtick>>}
PairValues == {NullArg, IntArg(1), StrArg(<<"x">>)}
PairsQueries ==
  {Query(<<"%", c>>, <<PairListArg(p)>>) :
     c \in {"U", "W"},
     p \in SeqsUpTo({ArgPair(k, v) : k \in PairKeys, v \in PairValues}, MaxPairs)}

\* the operands of append: up to MaxFrags fragments appended to each other
Fragments ==
  {Query(<<"%", "s">>, <<StrArg(<<"'">>)>>),
   Query(<<"%">>, <<>>),
   Query(<<"d">>, <<>>),
   Query(<<>>, <<IntArg(2)>>)}
Operands ==
  {Concat(fs) : fs \in SeqsUpTo(Fragments, MaxFrags)}
  \cup {UnsafeQuery(<<"%", "d">>)}

\* the statements of a MultiQuery
Statements ==
  {Query(<<>>, <<>>), Query(<<"x">>, <<>>), Query(<<"%", "d">>, <<IntArg(1)>>),
   Query(<<"%">>, <<>>), UnsafeQuery(<<"y", ";">>), UnsafeQuery(<<>>)}
Batches == SeqsUpTo(Statements, MaxBatch) \ {<<>>}

(* ---------------------------- state machine ---------------------------- *)
VARIABLES
  conn,                  \* the MYSQL* handle: FALSE is nullptr
  query,                 \* the Query the client renders and appends to
  query2,                \* <<q>>: the Query passed to append; <<>>: none
  queries,               \* MultiQuery::queries_
  ret,                   \* what query.render(conn) returned before any append
  ret2,                  \* what query2.render(conn) returned
  appended,              \* query.append(query2) has run
  ret_app,               \* what query.render(conn) returned after the append
  rendered_multi_query   \* what MultiQuery::renderQuery(conn) returned

vars == <<conn, query, query2, queries, ret, ret2, appended, ret_app,
          rendered_multi_query>>

NotRendered ==
  [ok |-> FALSE, error |-> "(not called)", offset |-> 0, detail |-> <<>>, out |-> <<>>]

Init ==
  /\ conn \in BOOLEAN
  /\ ret = NotRendered /\ ret2 = NotRendered /\ ret_app = NotRendered
  /\ rendered_multi_query = NotRendered
  /\ appended = FALSE
  /\ \/ /\ query \in ScanQueries \cup DangerQueries \cup TypeQueries \cup IdentQueries
                     \cup CommentQueries \cup RowsQueries \cup PairsQueries
        /\ query2 = <<>>
        /\ queries = <<>>
     \/ /\ query \in Operands
        /\ query2 \in {<<q>> : q \in Operands}
        /\ queries = <<>>
     \/ /\ query = Query(<<>>, <<>>)
        /\ query2 = <<>>
        /\ queries \in Batches

\* query.render(conn)
Render ==
  /\ ~appended
  /\ ret = NotRendered
  /\ ret' = render(query, conn, query.params)
  /\ UNCHANGED <<conn, query, query2, queries, ret2, appended, ret_app,
                 rendered_multi_query>>

\* query2.render(conn)
RenderOperand ==
  /\ query2 # <<>>
  /\ ret2 = NotRendered
  /\ ret2' = render(query2[1], conn, query2[1].params)
  /\ UNCHANGED <<conn, query, query2, queries, ret, appended, ret_app,
                 rendered_multi_query>>

\* query.append(query2)
AppendQuery ==
  /\ query2 # <<>>
  /\ ~appended
  /\ query' = QueryAppend(query, query2[1])
  /\ appended' = TRUE
  /\ UNCHANGED <<conn, query2, queries, ret, ret2, ret_app, rendered_multi_query>>

\* query.render(conn) after the append
RenderAppended ==
  /\ appended
  /\ ret_app = NotRendered
  /\ ret_app' = render(query, conn, query.params)
  /\ UNCHANGED <<conn, query, query2, queries, ret, ret2, appended,
                 rendered_multi_query>>

\* MultiQuery::renderQuery(conn)
RenderQuery ==
  /\ queries # <<>>
  /\ rendered_multi_query = NotRendered
  /\ rendered_multi_query' = renderQuery(conn, queries)
  /\ UNCHANGED <<conn, query, query2, queries, ret, ret2, appended, ret_app>>

Next == Render \/ RenderOperand \/ AppendQuery \/ RenderAppended \/ RenderQuery

Spec == Init /\ [][Next]_vars

(* ------------------------- names used by the claims -------------------- *)
\* the error kinds of the specification, by the message the source throws
DangerousCharacter == "Saw dangerous characters in SQL query"
TooFewParameters == "too few parameters for query"
TooManyParameters == "too many parameters specified for query"
SpecifierTypeMismatch == "invalid value type for format string"
RowLengthMismatch == "not all rows provided for %V formatter are the same size"
UnsupportedConversion == "Only allowed type conversions are Int, Double, Bool and String"

\* the render calls made so far: the Query rendered and what was returned
Calls ==
  (IF ~appended /\ ret # NotRendered THEN {[q |-> query, r |-> ret]} ELSE {})
  \cup (IF query2 # <<>> /\ ret2 # NotRendered
        THEN {[q |-> query2[1], r |-> ret2]} ELSE {})
  \cup (IF appended /\ ret_app # NotRendered THEN {[q |-> query, r |-> ret_app]} ELSE {})

HasDangerous(t) == \E i \in 1 .. Len(t) : t[i] \in {";", "'", "\"", Backtick}

RECURSIVE Join(_, _)
\* the texts of a sequence with sep between adjacent ones
Join(texts, sep) ==
  IF texts = <<>> THEN <<>>
  ELSE IF Len(texts) = 1 THEN texts[1]
  ELSE texts[1] \o sep \o Join(Tail(texts), sep)

Contains(t, pat) ==
  \E i \in 1 .. Len(t) - Len(pat) + 1 : SubSeq(t, i, i + Len(pat) - 1) = pat

(* ------------------------------- C1 ------------------------------------ *)
\* C1: a Query that is not unsafe and whose template contains one of the
\* bytes ; ' " 0x60 fails to render with DangerousCharacter and returns no
\* output, whatever its arguments; so a successful render of a Query that is
\* not unsafe had no such byte in its template.
C1_DangerousCharacterRejected ==
  \A c \in Calls :
    ~c.q.unsafe_query =>
      /\ HasDangerous(c.q.query_text) =>
           (~c.r.ok /\ c.r.error = DangerousCharacter /\ c.r.out = <<>>)
      /\ c.r.ok => ~HasDangerous(c.q.query_text)

\* a template with a specifier and an argument before the dangerous byte
C1_Witness ==
  \E c \in Calls :
    /\ ~c.q.unsafe_query
    /\ c.q.query_text = <<"%", "d", Backtick>>
    /\ c.q.params = <<IntArg(1)>>
    /\ c.r.error = DangerousCharacter
    /\ c.r.offset = 2

(* ------------------------------- C2 ------------------------------------ *)
\* the variant a specifier letter requires
Required(c) == CASE c = "d" -> "Int" [] c = "s" -> "Str" [] c = "f" -> "Double"
                 [] c = "T" -> "Str" [] c = "C" -> "Str"

IsSingle(c, letters) ==
  /\ ~c.q.unsafe_query
  /\ Len(c.q.query_text) = 2
  /\ c.q.query_text[1] = "%"
  /\ c.q.query_text[2] \in letters
  /\ Len(c.q.params) = 1

\* C2 as stated: for each of %d %s %f %T %C an argument that is not Null and
\* not of the required variant makes render fail with SpecifierTypeMismatch.
C2_Original ==
  \A c \in Calls :
    (/\ IsSingle(c, {"d", "s", "f", "T", "C"})
     /\ ~isNull(c.q.params[1])
     /\ c.q.params[1].type # Required(c.q.query_text[2]))
    => (~c.r.ok /\ c.r.error = SpecifierTypeMismatch /\ c.r.out = <<>>)

\* C2 amended: for %d %s %f an argument that is not Null and not of the
\* required variant fails with SpecifierTypeMismatch and emits nothing; for
\* %T and %C an argument that is not a Str is never identifier-quoted: a
\* Bool, Int or Double is emitted as its display string and render succeeds,
\* every other variant (Null, Query, List, PairList) fails with
\* UnsupportedConversion and emits nothing.
C2_TypeMismatch ==
  \A c \in Calls :
    /\ (/\ IsSingle(c, {"d", "s", "f"})
        /\ ~isNull(c.q.params[1])
        /\ c.q.params[1].type # Required(c.q.query_text[2]))
       => (/\ ~c.r.ok /\ c.r.error = SpecifierTypeMismatch /\ c.r.out = <<>>
           /\ c.r.offset = 1)
    /\ (IsSingle(c, {"T", "C"}) /\ c.q.params[1].type # "Str")
       => IF c.q.params[1].type \in {"Bool", "Int", "Double"}
          THEN c.r.ok /\ c.r.out = asString(c.q.params[1]).out
                      /\ Backtick \notin {c.r.out[i] : i \in 1 .. Len(c.r.out)}
          ELSE ~c.r.ok /\ c.r.error = UnsupportedConversion /\ c.r.out = <<>>

\* %C given an Int renders
C2_Witness ==
  \E c \in Calls :
    /\ IsSingle(c, {"C"})
    /\ c.q.params[1] = IntArg(0 - 12)
    /\ c.r.ok
    /\ c.r.out = <<"-", "1", "2">>

(* ------------------------------- C3 ------------------------------------ *)
RECURSIVE SpecifierOffsets(_, _)
\* the offsets of the letters of the argument-consuming specifiers of a
\* template read from idx: %% is none, %= and %L take one more byte
SpecifierOffsets(t, idx) ==
  IF idx >= Len(t) THEN <<>>
  ELSE IF CharAt(t, idx) # "%" THEN SpecifierOffsets(t, idx + 1)
  ELSE IF idx + 1 >= Len(t) THEN <<>>
  ELSE IF CharAt(t, idx + 1) = "%" THEN SpecifierOffsets(t, idx + 2)
  ELSE IF CharAt(t, idx + 1) \in {"=", "L"}
       THEN <<idx + 1>> \o SpecifierOffsets(t, idx + 3)
  ELSE <<idx + 1>> \o SpecifierOffsets(t, idx + 2)

\* C3: render succeeds only if the number of argument-consuming specifiers
\* equals the number of arguments (%% consumes none, every other specifier
\* one); TooFewParameters is reported at the offset of the first specifier
\* that finds the arguments exhausted, TooManyParameters when the scan ends
\* with arguments left; a template whose first specifier has no argument
\* fails with TooFewParameters, a template without % given an argument
\* fails with TooManyParameters.
C3_LockStep ==
  \A c \in Calls :
    ~c.q.unsafe_query =>
      LET offs == SpecifierOffsets(c.q.query_text, 0)
          n == Len(c.q.params)
          t == c.q.query_text
      IN  /\ c.r.ok => Len(offs) = n
          /\ c.r.error = TooFewParameters =>
               (n < Len(offs) /\ c.r.offset = offs[n + 1] /\ c.r.out = <<>>)
          /\ c.r.error = TooManyParameters =>
               (Len(offs) < n /\ c.r.offset = 0 /\ c.r.out = <<>>)
          /\ (n = 0 /\ offs # <<>> /\ ~HasDangerous(t)) =>
               (c.r.error = TooFewParameters /\ c.r.offset = offs[1])
          /\ (n > 0 /\ ~HasDangerous(t) /\ \A i \in 1 .. Len(t) : t[i] # "%") =>
               c.r.error = TooManyParameters

\* the second specifier of %d%d finds the single argument consumed
C3_Witness ==
  \E c \in Calls :
    /\ c.q.query_text = <<"%", "d", "%", "d">>
    /\ c.q.params = <<IntArg(1)>>
    /\ c.r.error = TooFewParameters
    /\ c.r.offset = 3

(* ------------------------------- C5 ------------------------------------ *)
Matches(letter, d) ==
  \/ isNull(d)
  \/ letter = "d" /\ isInt(d)
  \/ letter = "s" /\ isString(d)
  \/ letter = "f" /\ isDouble(d)

\* C5: the wildcard kind v is not reachable from a template: a value
\* rendered by %d %s %f, by %= or as an element of a plain %L list is always
\* checked against d, s or f, so a successful render of such a specifier has
\* a letter among d, s, f that every value that is not Null matches.
C5_WildcardUnreachable ==
  \A c \in Calls :
    (~c.q.unsafe_query /\ c.r.ok /\ Len(c.q.params) = 1) =>
      LET t == c.q.query_text
          d == c.q.params[1]
      IN  /\ (Len(t) = 2 /\ t[1] = "%" /\ t[2] \in {"d", "s", "f"}) => Matches(t[2], d)
          /\ (Len(t) = 3 /\ t[1] = "%" /\ t[2] = "=") => Matches(t[3], d)
          /\ (Len(t) = 3 /\ t[1] = "%" /\ t[2] = "L" /\ t[3] \notin {"O", "A", "C"}) =>
               \A i \in 1 .. Len(d.list) :
                 isNull(d.list[i]) \/ (t[3] \in {"d", "s", "f"} /\ Matches(t[3], d.list[i]))

(* ------------------------------- C6 ------------------------------------ *)
RECURSIVE Undouble(_)
\* the text with every pair of 0x60 read as one; a 0x60 that is not
\* followed by another yields a text with the mark "odd"
Undouble(t) ==
  IF t = <<>> THEN <<>>
  ELSE IF t[1] # Backtick THEN <<t[1]>> \o Undouble(Tail(t))
  ELSE IF Len(t) >= 2 /\ t[2] = Backtick
       THEN <<Backtick>> \o Undouble(SubSeq(t, 3, Len(t)))
  ELSE <<"odd">>

CountBackticks(t) == Cardinality({i \in 1 .. Len(t) : t[i] = Backtick})

\* every maximal run of 0x60 in t has even length
NoOddRun(t) ==
  \A i \in 1 .. Len(t) : \A j \in i .. Len(t) :
    (/\ \A k \in i .. j : t[k] = Backtick
     /\ (i = 1 \/ t[i - 1] # Backtick)
     /\ (j = Len(t) \/ t[j + 1] # Backtick))
    => (j - i + 1) % 2 = 0

\* C6: %T and %C given a Str s emit 0x60, s with every 0x60 doubled and the
\* other bytes unchanged and in order, 0x60; the length is
\* len(s) + 2 + (number of 0x60 in s) and no run of 0x60 between the outer
\* ones has odd length.
C6_IdentifierQuoting ==
  \A c \in Calls :
    (IsSingle(c, {"T", "C"}) /\ isString(c.q.params[1])) =>
      LET s == c.q.params[1].s
          out == c.r.out
          inner == SubSeq(out, 2, Len(out) - 1)
      IN  /\ c.r.ok
          /\ Len(out) = Len(s) + 2 + CountBackticks(s)
          /\ out[1] = Backtick /\ out[Len(out)] = Backtick
          /\ Undouble(inner) = s
          /\ NoOddRun(inner)

\* an identifier with two adjacent 0x60 and one apart
C6_Witness ==
  \E c \in Calls :
    /\ IsSingle(c, {"T"})
    /\ c.q.params[1] = StrArg(<<Backtick, Backtick, "a", Backtick>>)
    /\ c.r.ok
    /\ Len(c.r.out) = 9

(* ------------------------------- C7 ------------------------------------ *)
\* C7: the text %K emits between its opening /* and its closing */ contains
\* neither */ nor /*, whatever the arrangement of / and * in the value.
C7_CommentSafe ==
  \A c \in Calls :
    (IsSingle(c, {"K"}) /\ isString(c.q.params[1])) =>
      LET out == c.r.out
          inner == SubSeq(out, 3, Len(out) - 2)
      IN  /\ c.r.ok
          /\ Len(out) >= 4
          /\ SubSeq(out, 1, 2) = <<"/", "*">>
          /\ SubSeq(out, Len(out) - 1, Len(out)) = <<"*", "/">>
          /\ ~Contains(inner, <<"*", "/">>)
          /\ ~Contains(inner, <<"/", "*">>)

\* a value whose first replacement leaves a */ for the second one
C7_Witness ==
  \E c \in Calls :
    /\ IsSingle(c, {"K"})
    /\ c.q.params[1] = StrArg(<<"/", "*", "a", "*", "/">>)
    /\ c.r.ok
    /\ Contains(replace_all(c.q.params[1].s, <<"/", "*">>, <<" ", "/", " ", "*", " ">>),
                <<"*", "/">>)

(* ------------------------------- C8 ------------------------------------ *)
\* the cells the wildcard kind renders: Str, Int, Double and Null
Renderable(d) == isString(d) \/ isInt(d) \/ isDouble(d) \/ isNull(d)

\* one row of %V: ( cells joined by ", " )
RowText(row, connection) ==
  <<"(">> \o Join([j \in 1 .. Len(row.list) |->
                     appendValue(0, "v", row.list[j], connection).out], SepComma)
         \o <<")">>

\* C8: %V given a List of rows whose cells are Str, Int, Double or Null:
\* when every row has as many cells as the first, the output is the rows in
\* order, each ( cells joined by ", " ), joined by ", "; when some row has
\* another number of cells than the first (an empty first row, a longer or
\* a shorter later row, wherever it is) render fails with RowLengthMismatch
\* and returns no output.
C8_ValuesRows ==
  \A c \in Calls :
    (/\ IsSingle(c, {"V"})
     /\ isList(c.q.params[1])
     /\ \A k \in 1 .. Len(c.q.params[1].list) :
          /\ isList(c.q.params[1].list[k])
          /\ \A j \in 1 .. Len(c.q.params[1].list[k].list) :
               Renderable(c.q.params[1].list[k].list[j]))
    => LET rows == c.q.params[1].list
       IN  IF \A k \in 1 .. Len(rows) : Len(rows[k].list) = Len(rows[1].list)
           THEN /\ c.r.ok
                /\ c.r.out = Join([k \in 1 .. Len(rows) |-> RowText(rows[k], conn)],
                                  SepComma)
           ELSE /\ ~c.r.ok
                /\ c.r.error = RowLengthMismatch
                /\ c.r.out = <<>>

\* the third row is shorter than the first two
C8_Witness ==
  \E c \in Calls :
    /\ IsSingle(c, {"V"})
    /\ c.q.params[1] = ListArg(<<ListArg(<<IntArg(1), IntArg(1)>>),
                                 ListArg(<<IntArg(1), IntArg(1)>>),
                                 ListArg(<<IntArg(1)>>)>>)
    /\ c.r.error = RowLengthMismatch

(* ------------------------------- C9 ------------------------------------ *)
\* one pair of %U (letter U) or %W (letter W)
PairText(pair, letter, connection) ==
  <<Backtick>> \o DoubleBackticks(pair.first) \o <<Backtick>>
  \o (IF isNull(pair.second)
      THEN (IF letter = "U" THEN <<" ", "=", " ", "N", "U", "L", "L">>
            ELSE <<" ", "I", "S", " ", "N", "U", "L", "L">>)
      ELSE <<" ", "=", " ">> \o appendValue(0, "v", pair.second, connection).out)

C10_AppendHomomorphism ==
  /\ [](  (/\ appended /\ ret_app # NotRendered
           /\ ret.ok /\ ret2.ok
           /\ ~query.unsafe_query /\ ~query2[1].unsafe_query)
          => (ret_app.ok /\ ret_app.out = ret.out \o ret2.out))
  /\ [][ (~appended /\ appended') =>
           /\ query'.query_text = query.query_text \o query2[1].query_text
           /\ query'.params = query.params \o query2[1].params
           /\ query'.unsafe_query = query.unsafe_query ]_vars

\* both operands carry a specifier and an argument and rendered, with a
\* connection that escapes the Str
C10_Witness ==
  /\ appended /\ ret_app.ok
  /\ ret.ok /\ ret2.ok
  /\ ~query.unsafe_query /\ ~query2[1].unsafe_query
  /\ query2[1].query_text = <<"%", "s">>
  /\ query.query_text = <<"%", "s", "d", "%", "s">>
  /\ ret_app.out = <<"\"", "\\", "'", "\"", "d", "\"", "\\", "'", "\"">>

(* ------------------------------- C4 ------------------------------------ *)
\* C4: when every statement of a batch renders, renderQuery returns the
\* renders joined by ";" : n - 1 separators for n statements, none leading
\* or trailing; the batch of one unsafe statement returns the same text.
C4_BatchJoin ==
  (/\ rendered_multi_query # NotRendered
   /\ \A k \in 1 .. Len(queries) : render(queries[k], conn, queries[k].params).ok)
  => /\ rendered_multi_query.ok
     /\ rendered_multi_query.out =
          Join([k \in 1 .. Len(queries) |->
                  render(queries[k], conn, queries[k].params).out], <<";">>)

====
